---- MODULE Spec2Model ----
(***************************************************************************)
(* Session-aware request dispatch of the Stitch / BaaS JavaScript client:  *)
(* StitchClient._do with its proactive and reactive token refresh, and the *)
(* legacy BaasClient._doAuthed / _refreshToken (src/src/client.js).        *)
(*                                                                         *)
(* A dispatch is a promise chain.  Each process p owns one chain; its      *)
(* pending calls are the frames of stack[p] (the last frame is the one     *)
(* awaiting the network), its settled promise is result[p].  The service   *)
(* and the clock are the environment: every response and every expiry      *)
(* outcome is chosen nondeterministically.                                 *)
(***************************************************************************)
EXTENDS Integers, Sequences, FiniteSets, TLC

VARIABLES gen, active, auth, localStorage, expired, stack, result, hist, call,
          lastWrite, clock

vars == <<gen, active, auth, localStorage, expired, stack, result, hist, call,
          lastWrite, clock>>

(***************************************************************************)
(* Bounds                                                                  *)
(***************************************************************************)
\* counters of network calls saturate at MaxCount
MaxCount == 3
\* how many nested synchronous _do calls one step unrolls
CallDepth == 2
\* length of the free text in a user document
MaxName == 1

(***************************************************************************)
(* Values                                                                  *)
(***************************************************************************)
Procs == {1, 2}
None == "none"
AccessTokens == {"A1", "A2", "A3"}
RefreshTokens == {"R1"}
UserIds == {"u1"}

\* the three fields the Auth object of StitchClient keeps in storage
NoSession == [accessToken |-> None, refreshToken |-> None, userId |-> None]

\* HTTP statuses the service answers with
Statuses == {200, 204, 401}
JSONTYPE == TRUE
ErrInvalidSession == "InvalidSession"
ErrUnauthorized == "Unauthorized"
ErrorCodes == {ErrInvalidSession, "Other", None}

\* what fetch() settles with: a transport failure, or a response with a
\* status, a Content-Type (JSON or not) and, for JSON errors, an errorCode
TransportFailure == [transport |-> TRUE, status |-> 0, json |-> FALSE, errorCode |-> None]
Responses ==
    {TransportFailure} \cup
    { r \in [transport : {FALSE}, status : Statuses, json : BOOLEAN, errorCode : ErrorCodes] :
        /\ (~r.json => r.errorCode = None)
        /\ (r.status < 300 => r.errorCode = None) }

\* options of _do that the dispatch logic reads
Options == [refreshOnFailure : BOOLEAN, useRefreshToken : BOOLEAN, noAuth : BOOLEAN]

Min(a, b) == IF a < b THEN a ELSE b
Inc(n) == Min(n + 1, MaxCount)

Top(s) == s[Len(s)]
Pop(s) == SubSeq(s, 1, Len(s) - 1)

(***************************************************************************)
(* Settled promises                                                        *)
(***************************************************************************)
\* state: pending, resolved or rejected; type: what it settled with;
\* message and code: the error's message and error code; hasResponse and
\* hasJson: whether the error carries the response and the decoded body
NoResult == [state |-> "pending", type |-> None, message |-> None, code |-> None,
             hasResponse |-> FALSE, hasJson |-> FALSE, value |-> None]
ResolvedResponse == [state |-> "resolved", type |-> "response", message |-> None,
                     code |-> None, hasResponse |-> TRUE, hasJson |-> FALSE,
                     value |-> None]
ResolvedUndefined == [state |-> "resolved", type |-> "undefined", message |-> None,
                      code |-> None, hasResponse |-> FALSE, hasJson |-> FALSE,
                      value |-> None]
\* Promise.resolve(v) for a string v
ResolvedValue(v) == [state |-> "resolved", type |-> "value", message |-> None,
                     code |-> None, hasResponse |-> FALSE, hasJson |-> FALSE,
                     value |-> v]
Rejection(type, message, code, hasResponse, hasJson) ==
    [state |-> "rejected", type |-> type, message |-> message, code |-> code,
     hasResponse |-> hasResponse, hasJson |-> hasJson, value |-> None]

MustAuthFirst == "Must auth first"
\* new StitchError('Must auth first', ErrUnauthorized)
ErrMustAuth == Rejection("StitchError", MustAuthFirst, ErrUnauthorized, FALSE, FALSE)
\* a rejected fetch(): the transport's own error
ErrTransport == Rejection("TransportError", "transport", None, FALSE, FALSE)
\* response.json() on a body that is not JSON
ErrSyntax == Rejection("SyntaxError", "syntax", None, FALSE, FALSE)

(***************************************************************************)
(* History of one dispatch (observation only, never read by the program)   *)
(***************************************************************************)
NoRequest == [bearer |-> None, refreshOnFailure |-> FALSE, useRefreshToken |-> FALSE,
              noAuth |-> FALSE, storedAccess |-> None, afterRefresh |-> FALSE,
              lastIssued |-> None]

InitHist ==
    [ nRefresh |-> 0,          \* refresh operations started
      nRenewal |-> 0,          \* token-renewal requests sent
      nPrimary |-> 0,          \* primary requests sent
      nNested |-> 0,           \* refresh operations started by a refresh
      nRefreshOk |-> 0,        \* refresh operations that succeeded
      first |-> None,          \* kind of the first network call
      pending |-> FALSE,       \* a refresh is in flight
      early |-> FALSE,         \* a primary request was sent while pending
      reactive |-> FALSE,      \* a refresh was started by an invalid-session answer
      lastReq |-> NoRequest,   \* the last primary request
      lastResp |-> TransportFailure, \* the last answer to a primary request
      terminalIS |-> FALSE,    \* an invalid-session answer met refreshOnFailure = false
      storeAtRefresh |-> NoSession,  \* the store when the last refresh started
      lastRefresh |-> None,    \* how the last refresh ended
      lastRefreshResp |-> TransportFailure, \* the answer to the last renewal request
      primaryAtRefresh |-> 0,  \* primary requests sent when that answer arrived
      clearedInFlight |-> FALSE, \* the session was cleared while the refresh ran
      newToken |-> None,       \* the access token the last successful refresh stored
      answered |-> FALSE,      \* a primary request has been answered
      atResp |-> [nRefresh |-> 0, nRenewal |-> 0, nPrimary |-> 0,
                  store |-> NoSession],   \* calls and store when lastResp arrived
      nProvider |-> 0,         \* authentication requests sent
      loggedOut |-> FALSE,     \* logout resolved and nothing authenticated since
      setAuth |-> [called |-> FALSE, threw |-> FALSE, accessToken |-> None,
                   refreshToken |-> None, userId |-> None, name |-> <<>>] ]
                               \* the last _setAuth(json): its argument

\* the invocation a caller made: its options and the store it found
NoCall == [made |-> FALSE, op |-> None,
           opts |-> [refreshOnFailure |-> FALSE, useRefreshToken |-> FALSE, noAuth |-> FALSE],
           store |-> NoSession, expired |-> FALSE]

\* the last write of an access token to the Auth object: who wrote, the
\* token the service issued, and whether the session was cleared since
NoWrite == [by |-> 0, token |-> None, cleared |-> FALSE]

Frame(fn, o, pc) == [fn |-> fn, opts |-> o, pc |-> pc]

(***************************************************************************)
(* Token store of StitchClient (the Auth object)                           *)
(***************************************************************************)
authedId == auth.userId
getAccessToken == auth.accessToken
getRefreshToken == auth.refreshToken
isAccessTokenExpired == auth.accessToken = None \/ auth.accessToken \in expired
AuthClear == NoSession
AuthSetAccessToken(t) == [auth EXCEPT !.accessToken = t]

CurrentStore == IF gen = "stitch" THEN auth ELSE localStorage

\* the Auth object stores the access token t that p's refresh obtained
NoteWrite(p, t) == [lastWrite EXCEPT !.by = p, !.token = t]
\* the Auth object is cleared
NoteClear == [lastWrite EXCEPT !.cleared = TRUE]

\* the history h with the answer r to a primary request arriving now
NoteResponse(h, r) ==
    [h EXCEPT !.lastResp = r,
              !.answered = TRUE,
              !.atResp = [nRefresh |-> h.nRefresh, nRenewal |-> h.nRenewal,
                          nPrimary |-> h.nPrimary, store |-> CurrentStore]]

(***************************************************************************)
(* StitchClient                                                            *)
(***************************************************************************)
\* mutation of DoSessionPostOptions: the renewal request uses _do's defaults
DoSessionPostDefaults ==
    [refreshOnFailure |-> TRUE, useRefreshToken |-> FALSE, noAuth |-> FALSE]

\* the options doSessionPost passes to _do
DoSessionPostOptions ==
    [refreshOnFailure |-> FALSE, useRefreshToken |-> TRUE, noAuth |-> FALSE]

\* mutation of MustAuth: the identity check is missing
MustAuthSkipped(o) == FALSE

\* line 234-235: the call needs an identity and none is stored
MustAuth(o) == ~o.noAuth /\ authedId = None

\* mutation of NeedsProactiveRefresh: only a stored token is looked at
NeedsProactiveRefreshIfStored(o) ==
    ~o.noAuth /\ ~o.useRefreshToken /\ getAccessToken # None /\ isAccessTokenExpired

\* mutation of NeedsProactiveRefresh: an expired token is sent as it is
NeedsProactiveRefreshNever(o) == FALSE

\* mutation of NeedsProactiveRefresh: refreshes without looking at the expiry
NeedsProactiveRefreshAlways(o) == ~o.noAuth /\ ~o.useRefreshToken

\* line 240: the access token is to be used and is expired
NeedsProactiveRefresh(o) ==
    ~o.noAuth /\ ~o.useRefreshToken /\ isAccessTokenExpired

\* mutation of Bearer: the refresh token is sent whatever useRefreshToken says
BearerAlwaysRefreshToken(o) == IF o.noAuth THEN None ELSE getRefreshToken

\* lines 256-260: the bearer credential of the request, None without header
Bearer(o) ==
    IF o.noAuth THEN None
    ELSE IF o.useRefreshToken THEN getRefreshToken ELSE getAccessToken

\* mutation of ResumeOptions: the flag is not flipped
ResumeOptionsKept(o) == o

\* lines 242 and 288: options.refreshOnFailure = false before _do is re-invoked
ResumeOptions(o) == [o EXCEPT !.refreshOnFailure = FALSE]

\* fetch(url, fetchArgs) issued by the frame fn with options o
NoteFetch(h, fn, o) ==
    LET req == [bearer |-> Bearer(o),
                refreshOnFailure |-> o.refreshOnFailure,
                useRefreshToken |-> o.useRefreshToken,
                noAuth |-> o.noAuth,
                storedAccess |-> getAccessToken,
                afterRefresh |-> h.nRefreshOk > 0,
                lastIssued |-> lastWrite.token]
    IN IF fn = "doSessionPost"
       THEN [h EXCEPT !.nRenewal = Inc(@),
                      !.first = IF @ = None THEN "refresh" ELSE @]
       ELSE [h EXCEPT !.nPrimary = Inc(@),
                      !.first = IF @ = None THEN "primary" ELSE @,
                      !.early = @ \/ h.pending,
                      !.lastReq = req]

\* this.auth.refreshToken() called by the frame fn
NoteRefresh(h, fn) ==
    [h EXCEPT !.nRefresh = Inc(@),
              !.nNested = IF fn = "doSessionPost" THEN Inc(@) ELSE @,
              !.pending = TRUE,
              !.storeAtRefresh = CurrentStore]

\* The synchronous part of _do(resource, method, options), called by fn with
\* the frames `below` pending: the result is the process's new stack,
\* history and settled promise.
RECURSIVE StitchDo(_, _, _, _, _)
StitchDo(below, h, o, fn, depth) ==
    IF MustAuth(o)
    THEN [stack |-> <<>>, hist |-> [h EXCEPT !.pending = FALSE], result |-> ErrMustAuth]
    ELSE IF NeedsProactiveRefresh(o)
    THEN LET waiting == below \o <<Frame(fn, o, "awaitRefresh")>>
             h1 == NoteRefresh(h, fn)
         IN IF depth = 0
            THEN [stack |-> waiting \o <<Frame("doSessionPost", DoSessionPostOptions, "start")>>,
                  hist |-> h1, result |-> NoResult]
            ELSE StitchDo(waiting, h1, DoSessionPostOptions, "doSessionPost", depth - 1)
    ELSE [stack |-> below \o <<Frame(fn, o, "awaitFetch")>>,
          hist |-> NoteFetch(h, fn, o), result |-> NoResult]

\* this.auth.refreshToken() from the response handler of the frame fn
StitchRefresh(below, h, o, fn) ==
    StitchDo(below \o <<Frame(fn, o, "awaitRefresh")>>, NoteRefresh(h, fn),
             DoSessionPostOptions, "doSessionPost", CallDepth - 1)

\* mutation of Classify: every JSON error starts the refresh-and-retry
ClassifyRefreshesAnyError(o, r) ==
    IF r.transport THEN "transport"
    ELSE IF r.status >= 200 /\ r.status < 300 THEN "resolve"
    ELSE IF r.json = JSONTYPE
    THEN IF r.errorCode # None /\ r.errorCode = ErrInvalidSession /\ ~o.refreshOnFailure
         THEN "clear"
         ELSE IF o.refreshOnFailure THEN "refresh" ELSE "stitchError"
    ELSE "statusText"

\* mutation of Classify: a rejected fetch is retried after a refresh
ClassifyRetriesTransport(o, r) ==
    IF r.transport THEN IF o.refreshOnFailure THEN "refresh" ELSE "transport"
    ELSE IF r.status >= 200 /\ r.status < 300 THEN "resolve"
    ELSE IF r.json = JSONTYPE
    THEN IF r.errorCode # None /\ r.errorCode = ErrInvalidSession
         THEN IF ~o.refreshOnFailure THEN "clear" ELSE "refresh"
         ELSE "stitchError"
    ELSE "statusText"

\* mutation of Classify: every JSON error without retry clears the session
ClassifyClearsOnAnyError(o, r) ==
    IF r.transport THEN "transport"
    ELSE IF r.status >= 200 /\ r.status < 300 THEN "resolve"
    ELSE IF r.json = JSONTYPE
    THEN IF r.errorCode # None /\ r.errorCode = ErrInvalidSession /\ o.refreshOnFailure
         THEN "refresh"
         ELSE "clear"
    ELSE "statusText"

\* mutation of Classify: a terminal invalid-session answer does not clear
ClassifyNeverClears(o, r) ==
    IF r.transport THEN "transport"
    ELSE IF r.status >= 200 /\ r.status < 300 THEN "resolve"
    ELSE IF r.json = JSONTYPE
    THEN IF r.errorCode # None /\ r.errorCode = ErrInvalidSession
              /\ o.refreshOnFailure
         THEN "refresh"
         ELSE "stitchError"
    ELSE "statusText"

\* what the response handler of _do does with the answer r under options o
Classify(o, r) ==
    IF r.transport THEN "transport"
    ELSE IF r.status >= 200 /\ r.status < 300 THEN "resolve"
    ELSE IF r.json = JSONTYPE
    THEN IF r.errorCode # None /\ r.errorCode = ErrInvalidSession
         THEN IF ~o.refreshOnFailure THEN "clear" ELSE "refresh"
         ELSE "stitchError"
    ELSE "statusText"

\* the rejection _do settles with for the terminal classes
TerminalError(class, r) ==
    CASE class = "transport" -> ErrTransport
      [] class = "clear" -> Rejection("StitchError", "json.error", r.errorCode, TRUE, TRUE)
      [] class = "stitchError" -> Rejection("StitchError", "json.error", r.errorCode, TRUE, TRUE)
      [] class = "statusText" -> Rejection("Error", "statusText", None, TRUE, FALSE)

Settle(p, st, h, res) ==
    /\ stack' = [stack EXCEPT ![p] = st]
    /\ hist' = [hist EXCEPT ![p] = h]
    /\ result' = [result EXCEPT ![p] = res]

\* a caller invokes _do(resource, method, options) with options from opts
InvokeWith(p, opts) ==
    /\ gen = "stitch"
    /\ p \in active
    /\ ~call[p].made
    /\ \E o \in opts :
         LET n == StitchDo(<<>>, hist[p], o, "_do", CallDepth)
         IN /\ Settle(p, n.stack, n.hist, n.result)
            /\ call' = [call EXCEPT ![p] = [made |-> TRUE, op |-> "_do", opts |-> o,
                                            store |-> auth,
                                            expired |-> isAccessTokenExpired]]
    /\ UNCHANGED <<gen, clock, lastWrite, active, auth, localStorage, expired>>

\* a caller invokes _do(resource, method, options)
Invoke(p) == InvokeWith(p, Options)

\* a caller invokes _do with the defaults useRefreshToken = false, noAuth = false
InvokeAuthed(p) ==
    InvokeWith(p, {o \in Options : ~o.useRefreshToken /\ ~o.noAuth})

\* the fetch of a _do frame settles and its handlers (lines 267-303) run
DoRespond(p) ==
    /\ gen = "stitch"
    /\ stack[p] # <<>>
    /\ Top(stack[p]).fn = "_do"
    /\ Top(stack[p]).pc = "awaitFetch"
    /\ \E r \in Responses :
         LET o == Top(stack[p]).opts
             below == Pop(stack[p])
             class == Classify(o, r)
             h == [NoteResponse(hist[p], r) EXCEPT
                                  !.terminalIS = @ \/ class = "clear",
                                  !.reactive = @ \/ class = "refresh"]
         IN CASE class = "resolve" /\ call[p].op # "logout" ->
                   /\ Settle(p, <<>>, h, ResolvedResponse)
                   /\ UNCHANGED <<auth, lastWrite>>
              [] class = "resolve" /\ call[p].op = "logout" ->
                   \* logout: .then(() => this.auth.clear()), line 148
                   /\ auth' = AuthClear
                   /\ lastWrite' = NoteClear
                   /\ Settle(p, <<>>, [h EXCEPT !.loggedOut = TRUE], ResolvedUndefined)
              [] class = "clear" ->
                   /\ auth' = AuthClear
                   /\ lastWrite' = NoteClear
                   /\ Settle(p, <<>>, h, TerminalError(class, r))
              [] class = "refresh" ->
                   LET n == StitchRefresh(below, h, o, "_do")
                   IN /\ Settle(p, n.stack, n.hist, n.result)
                      /\ UNCHANGED <<auth, lastWrite>>
              [] OTHER ->
                   /\ Settle(p, <<>>, h, TerminalError(class, r))
                   /\ UNCHANGED <<auth, lastWrite>>
    /\ UNCHANGED <<gen, clock, active, localStorage, expired, call>>

\* the fetch of doSessionPost's _do settles: _do's handlers, then
\* response.json(), then the Auth object stores the new access token
SessionRespond(p) ==
    /\ gen = "stitch"
    /\ stack[p] # <<>>
    /\ Top(stack[p]).fn = "doSessionPost"
    /\ Top(stack[p]).pc = "awaitFetch"
    /\ \E r \in Responses, t \in AccessTokens, e \in BOOLEAN :
         LET o == Top(stack[p]).opts
             below == Pop(stack[p])
             class == Classify(o, r)
             ok == class = "resolve" /\ r.json
             h == [hist[p] EXCEPT
                     !.pending = FALSE,
                     !.lastRefreshResp = r,
                     !.primaryAtRefresh = hist[p].nPrimary,
                     !.nRefreshOk = IF ok THEN Inc(@) ELSE @,
                     !.lastRefresh = IF ok THEN "ok"
                                     ELSE IF r.errorCode = ErrInvalidSession
                                     THEN "invalidSession"
                                     ELSE "failed",
                     !.newToken = IF ok THEN t ELSE @]
         IN /\ (ok => t # auth.accessToken)
            /\ (~ok => t = "A1" /\ ~e)
            /\ (clock = "stopped" => ~e)
            /\ CASE ok ->
                      /\ auth' = AuthSetAccessToken(t)
                      /\ lastWrite' = NoteWrite(p, t)
                      /\ expired' = IF e THEN expired \cup {t} ELSE expired \ {t}
                      /\ Settle(p, Pop(below) \o <<[Top(below) EXCEPT !.pc = "resume"]>>,
                                h, NoResult)
                 [] class = "resolve" /\ ~r.json ->
                      /\ Settle(p, <<>>, h, ErrSyntax)
                      /\ UNCHANGED <<auth, expired, lastWrite>>
                 [] class = "clear" ->
                      /\ auth' = AuthClear
                      /\ lastWrite' = NoteClear
                      /\ Settle(p, <<>>, h, TerminalError(class, r))
                      /\ UNCHANGED expired
                 [] class = "refresh" ->
                      LET n == StitchRefresh(below, h, o, "doSessionPost")
                      IN /\ Settle(p, n.stack, n.hist, n.result)
                         /\ UNCHANGED <<auth, expired, lastWrite>>
                 [] OTHER ->
                      /\ Settle(p, <<>>, h, TerminalError(class, r))
                      /\ UNCHANGED <<auth, expired, lastWrite>>
    /\ UNCHANGED <<gen, clock, active, localStorage, call>>

\* refreshToken() resolved: options.refreshOnFailure = false, then _do again
Resume(p) ==
    /\ gen = "stitch"
    /\ stack[p] # <<>>
    /\ Top(stack[p]).fn = "_do"
    /\ Top(stack[p]).pc = "resume"
    /\ LET o == ResumeOptions(Top(stack[p]).opts)
           n == StitchDo(Pop(stack[p]), hist[p], o, "_do", CallDepth)
       IN Settle(p, n.stack, n.hist, n.result)
    /\ UNCHANGED <<gen, clock, lastWrite, active, auth, localStorage, expired, call>>

\* the clock reaches the expiry claim of the stored access token
TokenExpires ==
    /\ gen = "stitch"
    /\ clock = "running"
    /\ auth.accessToken # None
    /\ auth.accessToken \notin expired
    /\ expired' = expired \cup {auth.accessToken}
    /\ UNCHANGED <<gen, clock, lastWrite, active, auth, localStorage, stack, result, hist, call>>

(***************************************************************************)
(* Legacy BaasClient                                                       *)
(***************************************************************************)
\* localStorage: USER_AUTH_KEY holds the auth document (without its refresh
\* token) or is absent; REFRESH_TOKEN_KEY holds the refresh token
\* The value of USER_AUTH_KEY is kept as the document auth() reads from it,
\* JSON.parse(atob(item)); every write goes through btoa(JSON.stringify(doc)).
NullUA == [null |-> TRUE, accessToken |-> None, userId |-> None, name |-> <<>>]
NoLocalStorage == [ua |-> NullUA, rt |-> None]

\* characters are code points: 'A', e-acute (Latin-1), the euro sign (not Latin-1)
Chars == {65, 233, 8364}
Names == UNION { [1..n -> Chars] : n \in 0..MaxName }

\* the character that stands for a token or an id in the JSON text
CharOf(x) ==
    CASE x = "A1" -> 49 [] x = "A2" -> 50 [] x = "A3" -> 51
      [] x = "u1" -> 117 [] OTHER -> 110
TokenOf(c) == CHOOSE x \in AccessTokens \cup UserIds \cup {None} : CharOf(x) = c

\* JSON.stringify(doc) and JSON.parse(text) of an auth document
JsonStringify(doc) == <<CharOf(doc.accessToken), CharOf(doc.userId)>> \o doc.name
JsonParse(text) ==
    [null |-> FALSE, accessToken |-> TokenOf(text[1]), userId |-> TokenOf(text[2]),
     name |-> SubSeq(text, 3, Len(text))]

\* btoa throws InvalidCharacterError on a character outside Latin-1
BtoaThrows(text) == \E i \in 1..Len(text) : text[i] > 255

\* btoa(text): the base64 digits (0..63, 64 for the padding '=')
RECURSIVE Btoa(_)
Btoa(text) ==
    IF text = <<>> THEN <<>>
    ELSE IF Len(text) = 1
    THEN <<text[1] \div 4, (text[1] % 4) * 16, 64, 64>>
    ELSE IF Len(text) = 2
    THEN <<text[1] \div 4, (text[1] % 4) * 16 + text[2] \div 16,
           (text[2] % 16) * 4, 64>>
    ELSE <<text[1] \div 4, (text[1] % 4) * 16 + text[2] \div 16,
           (text[2] % 16) * 4 + text[3] \div 64, text[3] % 64>>
         \o Btoa(SubSeq(text, 4, Len(text)))

\* atob(digits)
RECURSIVE Atob(_)
Atob(digits) ==
    IF digits = <<>> THEN <<>>
    ELSE LET b1 == digits[1] * 4 + digits[2] \div 16
             b2 == (digits[2] % 16) * 16 + digits[3] \div 4
             b3 == (digits[3] % 4) * 64 + digits[4]
         IN IF digits[3] = 64 THEN <<b1>>
            ELSE IF digits[4] = 64 THEN <<b1, b2>>
            ELSE <<b1, b2, b3>> \o Atob(SubSeq(digits, 5, Len(digits)))

\* what auth() reads back after setItem(USER_AUTH_KEY, btoa(JSON.stringify(doc)))
LegacyStoredAuth(doc) == JsonParse(Atob(Btoa(JsonStringify(doc))))

\* BaasClient.auth() === null
LegacyAuthIsNull == localStorage.ua.null
\* mutation of LegacyClearAuth: only USER_AUTH_KEY is removed
LegacyClearAuthKeepsRefreshToken == [localStorage EXCEPT !.ua = NullUA]

LegacyClearAuth == NoLocalStorage
\* the base64 digits of the text "null", which atob(null) decodes
NullDigits == <<39, 46, 37, 37>>
\* JSON.parse(text) throws SyntaxError: text is not an auth document
JsonParseThrows(text) ==
    \/ Len(text) < 2
    \/ \E i \in 1..2 :
          text[i] \notin {CharOf(x) : x \in AccessTokens \cup UserIds \cup {None}}

\* mutation of LegacySetAccessTokenThrows: a missing item is read as a document
LegacySetAccessTokenNeverThrows == FALSE

\* line 584: JSON.parse(atob(localStorage.getItem(USER_AUTH_KEY))) throws
\* when the item is missing
LegacySetAccessTokenThrows ==
    IF LegacyAuthIsNull THEN JsonParseThrows(Atob(NullDigits)) ELSE FALSE

LegacySetAccessToken(t) ==
    [localStorage EXCEPT !.ua = LegacyStoredAuth([@ EXCEPT !.accessToken = t])]

\* _setAuth(json): btoa(JSON.stringify(json)) throws before anything is stored
LegacySetAuthThrows(json) == BtoaThrows(JsonStringify(json))
\* _setAuth(json), lines 443-447
LegacySetAuth(json) ==
    [ua |-> LegacyStoredAuth([accessToken |-> json.accessToken, userId |-> json.userId,
                              name |-> json.name]),
     rt |-> json.refreshToken]

\* the response body of the local userpass provider
AuthJsons ==
    [accessToken : {"A1"}, refreshToken : RefreshTokens, userId : UserIds, name : Names]

\* new Error("Must auth first")
LegacyErrMustAuth == Rejection("Error", MustAuthFirst, None, FALSE, FALSE)
\* new Error(json): the message is the object's string form
LegacyErrJson == Rejection("Error", "[object Object]", None, FALSE, FALSE)
\* new Error(response.statusText) with error.response = response
LegacyErrStatusText == Rejection("Error", "statusText", None, TRUE, FALSE)

\* mutation of LegacyRefreshErrorStore: every JSON error clears the session
LegacyRefreshErrorStoreAlwaysClears(r) == LegacyClearAuth

\* lines 560-566: the store after _refreshToken got a JSON error body
LegacyRefreshErrorStore(r) ==
    IF r.errorCode # None /\ r.errorCode = "InvalidSession"
    THEN LegacyClearAuth ELSE localStorage

\* fetch(url, init) of _doAuthed with refreshOnFailure/useRefreshToken in o
LegacyNoteFetch(h, o) ==
    LET token == IF o.useRefreshToken THEN localStorage.rt
                 ELSE localStorage.ua.accessToken
    IN [h EXCEPT !.nPrimary = Inc(@),
                 !.first = IF @ = None THEN "primary" ELSE @,
                 !.early = @ \/ h.pending,
                 !.lastReq = [bearer |-> token,
                              refreshOnFailure |-> o.refreshOnFailure,
                              useRefreshToken |-> o.useRefreshToken,
                              noAuth |-> FALSE,
                              storedAccess |-> localStorage.ua.accessToken,
                              afterRefresh |-> h.nRefreshOk > 0,
                              lastIssued |-> lastWrite.token]]

\* the synchronous part of _doAuthed(resource, method, body, refreshOnFailure,
\* useRefreshToken), lines 485-517
LegacyDoAuthed(below, h, o) ==
    IF LegacyAuthIsNull
    THEN [stack |-> <<>>, hist |-> [h EXCEPT !.pending = FALSE],
          result |-> LegacyErrMustAuth]
    ELSE [stack |-> below \o <<Frame("_doAuthed", o, "awaitFetch")>>,
          hist |-> LegacyNoteFetch(h, o), result |-> NoResult]

\* what the response handler of _doAuthed does with the answer r
LegacyClassify(o, r) ==
    IF r.transport THEN "transport"
    ELSE IF r.status >= 200 /\ r.status < 300 THEN "resolve"
    ELSE IF r.json
    THEN IF r.errorCode # None /\ r.errorCode = "InvalidSession"
         THEN IF ~o.refreshOnFailure THEN "clear" ELSE "refresh"
         ELSE "undefined"
    ELSE "statusText"

\* the arguments of the retry in _doAuthed's refresh branch:
\* _doAuthed(resource, method, body, false)
LegacyRetryArgs(o) ==
    [refreshOnFailure |-> FALSE, useRefreshToken |-> FALSE, noAuth |-> FALSE]

\* a caller invokes _doAuthed
LegacyInvoke(p) ==
    /\ gen = "legacy"
    /\ p \in active
    /\ ~call[p].made
    /\ \E o \in Options :
         /\ ~o.noAuth
         /\ LET n == LegacyDoAuthed(<<>>, hist[p], o)
            IN /\ Settle(p, n.stack, n.hist, n.result)
               /\ call' = [call EXCEPT ![p] = [made |-> TRUE, op |-> "_doAuthed",
                                               opts |-> o,
                                               store |-> localStorage,
                                               expired |-> FALSE]]
    /\ UNCHANGED <<gen, clock, lastWrite, active, auth, localStorage, expired>>

\* the fetch of _doAuthed settles and its handler (lines 517-541) runs
LegacyRespond(p) ==
    /\ gen = "legacy"
    /\ stack[p] # <<>>
    /\ Top(stack[p]).fn = "_doAuthed"
    /\ Top(stack[p]).pc = "awaitFetch"
    /\ \E r \in Responses :
         LET o == Top(stack[p]).opts
             below == Pop(stack[p])
             class == LegacyClassify(o, r)
             h == [NoteResponse(hist[p], r) EXCEPT
                                  !.terminalIS = @ \/ class = "clear",
                                  !.reactive = @ \/ class = "refresh"]
         IN CASE class = "transport" ->
                   /\ Settle(p, <<>>, h, ErrTransport)
                   /\ localStorage' = localStorage
              [] class = "resolve" /\ call[p].op # "logout" ->
                   /\ Settle(p, <<>>, h, ResolvedResponse)
                   /\ localStorage' = localStorage
              [] class \in {"resolve", "undefined"} /\ call[p].op = "logout" ->
                   \* logout: .then(function (data) { _clearAuth() }), line 408
                   /\ localStorage' = LegacyClearAuth
                   /\ Settle(p, <<>>, [h EXCEPT !.loggedOut = TRUE], ResolvedUndefined)
              [] class = "clear" ->
                   /\ localStorage' = LegacyClearAuth
                   /\ Settle(p, <<>>, h, LegacyErrJson)
              [] class = "refresh" ->
                   \* _refreshToken(): fetch(appUrl + '/auth/newAccessToken')
                   /\ Settle(p, below \o <<Frame("_doAuthed", o, "awaitRefresh"),
                                           Frame("_refreshToken", o, "awaitFetch")>>,
                             [NoteRefresh(h, "_doAuthed") EXCEPT
                                 !.nRenewal = Inc(@),
                                 !.first = IF @ = None THEN "refresh" ELSE @],
                             NoResult)
                   /\ localStorage' = localStorage
              [] class = "undefined" /\ call[p].op # "logout" ->
                   /\ Settle(p, <<>>, h, ResolvedUndefined)
                   /\ localStorage' = localStorage
              [] class = "statusText" ->
                   /\ Settle(p, <<>>, h, LegacyErrStatusText)
                   /\ localStorage' = localStorage
    /\ UNCHANGED <<gen, clock, lastWrite, active, auth, expired, call>>

\* the fetch of _refreshToken settles and its handler (lines 557-579) runs
LegacyRefreshRespond(p) ==
    /\ gen = "legacy"
    /\ stack[p] # <<>>
    /\ Top(stack[p]).fn = "_refreshToken"
    /\ Top(stack[p]).pc = "awaitFetch"
    /\ \E r \in Responses, t \in AccessTokens :
         LET below == Pop(stack[p])
             ok == ~r.transport /\ r.status = 200 /\ r.json
                     /\ ~LegacySetAccessTokenThrows
             invalid == ~r.transport /\ r.status # 200 /\ r.json
                          /\ r.errorCode # None /\ r.errorCode = "InvalidSession"
             h == [hist[p] EXCEPT
                     !.pending = FALSE,
                     !.lastRefreshResp = r,
                     !.primaryAtRefresh = hist[p].nPrimary,
                     !.nRefreshOk = IF ok THEN Inc(@) ELSE @,
                     !.clearedInFlight =
                         LegacyAuthIsNull /\ ~hist[p].storeAtRefresh.ua.null,
                     !.lastRefresh = IF ok THEN "ok"
                                     ELSE IF invalid THEN "invalidSession"
                                     ELSE "failed",
                     !.newToken = IF ok THEN t ELSE @]
         IN /\ (ok => t # localStorage.ua.accessToken)
            /\ (~ok => t = "A1")
            /\ IF r.transport
               THEN /\ Settle(p, <<>>, h, ErrTransport)
                    /\ localStorage' = localStorage
               ELSE IF r.status # 200
               THEN IF r.json
                    THEN /\ localStorage' = LegacyRefreshErrorStore(r)
                         /\ Settle(p, <<>>, h, LegacyErrJson)
                    ELSE /\ Settle(p, <<>>, h, LegacyErrStatusText)
                         /\ localStorage' = localStorage
               ELSE IF ~r.json \/ LegacySetAccessTokenThrows
               \* response.json() or JSON.parse(atob(null)) throws
               THEN /\ Settle(p, <<>>, h, ErrSyntax)
                    /\ localStorage' = localStorage
               ELSE /\ localStorage' = LegacySetAccessToken(t)
                    /\ Settle(p, Pop(below) \o <<[Top(below) EXCEPT !.pc = "resume"]>>,
                              h, NoResult)
    /\ UNCHANGED <<gen, clock, lastWrite, active, auth, expired, call>>

\* _refreshToken() resolved: _doAuthed(resource, method, body, false)
LegacyResume(p) ==
    /\ gen = "legacy"
    /\ stack[p] # <<>>
    /\ Top(stack[p]).fn = "_doAuthed"
    /\ Top(stack[p]).pc = "resume"
    /\ LET n == LegacyDoAuthed(Pop(stack[p]), hist[p], LegacyRetryArgs(Top(stack[p]).opts))
       IN Settle(p, n.stack, n.hist, n.result)
    /\ UNCHANGED <<gen, clock, lastWrite, active, auth, localStorage, expired, call>>

(***************************************************************************)
(* Session operations: logout, authenticate, authWithLocal                 *)
(***************************************************************************)
NoOptions == [refreshOnFailure |-> FALSE, useRefreshToken |-> FALSE, noAuth |-> FALSE]

\* mutation of LogoutOptions: logout dispatches with the defaults of _do
LogoutOptionsDefault ==
    [refreshOnFailure |-> TRUE, useRefreshToken |-> FALSE, noAuth |-> FALSE]

\* line 147: { refreshOnFailure: false, useRefreshToken: true }
LogoutOptions ==
    [refreshOnFailure |-> FALSE, useRefreshToken |-> TRUE, noAuth |-> FALSE]

\* StitchClient.logout(): _do('/auth/session', 'DELETE', ...); its .then is
\* the logout case of DoRespond
Logout(p) ==
    /\ gen = "stitch"
    /\ p \in active
    /\ ~call[p].made
    /\ LET o == LogoutOptions
           n == StitchDo(<<>>, hist[p], o, "_do", CallDepth)
       IN /\ Settle(p, n.stack, n.hist, n.result)
          /\ call' = [call EXCEPT ![p] = [made |-> TRUE, op |-> "logout", opts |-> o,
                                          store |-> auth,
                                          expired |-> isAccessTokenExpired]]
    /\ UNCHANGED <<gen, clock, lastWrite, active, auth, localStorage, expired>>

\* mutation of ReusesSession: an identity is enough to reuse the session
ReusesSessionByIdentity == authedId # None

\* line 133: if (this.auth.getAccessToken())
ReusesSession == getAccessToken # None

\* StitchClient.authenticate(providerType, options), lines 131-139
Authenticate(p) ==
    /\ gen = "stitch"
    /\ p \in active
    /\ ~call[p].made
    /\ IF ReusesSession
       THEN Settle(p, <<>>, hist[p], ResolvedValue(authedId))
       ELSE Settle(p, <<Frame("provider", NoOptions, "awaitFetch")>>,
                   [hist[p] EXCEPT !.nProvider = Inc(@)], NoResult)
    /\ call' = [call EXCEPT ![p] = [made |-> TRUE, op |-> "authenticate",
                                    opts |-> NoOptions, store |-> auth,
                                    expired |-> isAccessTokenExpired]]
    /\ UNCHANGED <<gen, clock, lastWrite, active, auth, localStorage, expired>>

\* the sessions an auth provider establishes
ProviderSessions ==
    [accessToken : {"A1"}, refreshToken : RefreshTokens, userId : UserIds]
\* the provider's rejection
ErrProvider == Rejection("Error", "provider", None, FALSE, FALSE)

\* the provider's authenticate(options) settles: on success the Auth object
\* holds the new session and .then(() => this.auth.authedId()) runs
ProviderRespond(p) ==
    /\ gen = "stitch"
    /\ stack[p] # <<>>
    /\ Top(stack[p]).fn = "provider"
    /\ \/ \E s \in ProviderSessions :
            /\ auth' = s
            /\ expired' = expired \ {s.accessToken}
            /\ Settle(p, <<>>, [hist[p] EXCEPT !.loggedOut = FALSE],
                      ResolvedValue(s.userId))
       \/ /\ Settle(p, <<>>, hist[p], ErrProvider)
          /\ UNCHANGED <<auth, expired>>
    /\ UNCHANGED <<gen, clock, lastWrite, active, localStorage, call>>

\* the arguments of logout's request: _doAuthed("/auth", "DELETE", null, false, true)
LegacyLogoutArgs ==
    [refreshOnFailure |-> FALSE, useRefreshToken |-> TRUE, noAuth |-> FALSE]

\* BaasClient.logout(); its .then is the logout case of LegacyRespond
LegacyLogout(p) ==
    /\ gen = "legacy"
    /\ p \in active
    /\ ~call[p].made
    /\ LET o == LegacyLogoutArgs
           n == LegacyDoAuthed(<<>>, hist[p], o)
       IN /\ Settle(p, n.stack, n.hist, n.result)
          /\ call' = [call EXCEPT ![p] = [made |-> TRUE, op |-> "logout", opts |-> o,
                                          store |-> localStorage, expired |-> FALSE]]
    /\ UNCHANGED <<gen, clock, lastWrite, active, auth, localStorage, expired>>

\* btoa's exception leaving _setAuth
ErrInvalidCharacter == Rejection("InvalidCharacterError", "btoa", None, FALSE, FALSE)

\* BaasClient.authWithLocal(username, password): fetch(authUrl + '/local/userpass')
AuthWithLocal(p) ==
    /\ gen = "legacy"
    /\ p \in active
    /\ ~call[p].made
    /\ Settle(p, <<Frame("authWithLocal", NoOptions, "awaitFetch")>>,
              [hist[p] EXCEPT !.nProvider = Inc(@)], NoResult)
    /\ call' = [call EXCEPT ![p] = [made |-> TRUE, op |-> "authWithLocal",
                                    opts |-> NoOptions, store |-> localStorage,
                                    expired |-> FALSE]]
    /\ UNCHANGED <<gen, clock, lastWrite, active, auth, localStorage, expired>>

\* the fetch of authWithLocal settles: checkStatus, response.json(), _setAuth(json)
AuthWithLocalRespond(p) ==
    /\ gen = "legacy"
    /\ stack[p] # <<>>
    /\ Top(stack[p]).fn = "authWithLocal"
    /\ \E r \in Responses :
         IF r.transport
         THEN /\ Settle(p, <<>>, hist[p], ErrTransport)
              /\ localStorage' = localStorage
         ELSE IF ~(r.status >= 200 /\ r.status < 300)
         THEN /\ Settle(p, <<>>, hist[p], LegacyErrStatusText)
              /\ localStorage' = localStorage
         ELSE IF ~r.json
         THEN /\ Settle(p, <<>>, hist[p], ErrSyntax)
              /\ localStorage' = localStorage
         ELSE \E json \in AuthJsons :
                LET h == [hist[p] EXCEPT
                            !.setAuth = [called |-> TRUE,
                                         threw |-> LegacySetAuthThrows(json),
                                         accessToken |-> json.accessToken,
                                         refreshToken |-> json.refreshToken,
                                         userId |-> json.userId,
                                         name |-> json.name]]
                IN IF LegacySetAuthThrows(json)
                   THEN /\ Settle(p, <<>>, h, ErrInvalidCharacter)
                        /\ localStorage' = localStorage
                   ELSE /\ localStorage' = LegacySetAuth(json)
                        /\ Settle(p, <<>>, [h EXCEPT !.loggedOut = FALSE],
                                  ResolvedUndefined)
    /\ UNCHANGED <<gen, clock, lastWrite, active, auth, expired, call>>

\* the caller's promise has settled; the caller goes on to its next operation
Reset(p) ==
    /\ call[p].made
    /\ stack[p] = <<>>
    /\ result[p].state # "pending"
    /\ call' = [call EXCEPT ![p] = NoCall]
    /\ result' = [result EXCEPT ![p] = NoResult]
    /\ hist' = [hist EXCEPT ![p] = [InitHist EXCEPT !.loggedOut = hist[p].loggedOut]]
    /\ lastWrite' = NoWrite
    /\ UNCHANGED <<gen, clock, active, auth, localStorage, expired, stack>>

(***************************************************************************)
(* Specification                                                           *)
(***************************************************************************)
StitchSessions ==
    { NoSession,
      [accessToken |-> "A1", refreshToken |-> "R1", userId |-> "u1"],
      [accessToken |-> None, refreshToken |-> "R1", userId |-> "u1"] }

LegacySessions ==
    { NoLocalStorage,
      [ua |-> [null |-> FALSE, accessToken |-> "A1", userId |-> "u1", name |-> <<65>>],
       rt |-> "R1"] }

Init ==
    /\ gen \in {"stitch", "legacy"}
    /\ active = {1}
    /\ auth \in IF gen = "stitch" THEN StitchSessions ELSE {NoSession}
    /\ localStorage \in IF gen = "legacy" THEN LegacySessions ELSE {NoLocalStorage}
    /\ expired \in IF gen = "stitch" THEN {{}, {"A1"}} ELSE {{}}
    /\ stack = [p \in Procs |-> <<>>]
    /\ result = [p \in Procs |-> NoResult]
    /\ hist = [p \in Procs |-> InitHist]
    /\ call = [p \in Procs |-> NoCall]
    /\ lastWrite = NoWrite
    /\ clock = "running"

Next ==
    \/ \E p \in Procs : Invoke(p)
    \/ \E p \in Procs : DoRespond(p)
    \/ \E p \in Procs : SessionRespond(p)
    \/ \E p \in Procs : Resume(p)
    \/ TokenExpires
    \/ \E p \in Procs : LegacyInvoke(p)
    \/ \E p \in Procs : LegacyRespond(p)
    \/ \E p \in Procs : LegacyRefreshRespond(p)
    \/ \E p \in Procs : LegacyResume(p)

Spec == Init /\ [][Next]_vars

Done(p) == call[p].made /\ stack[p] = <<>> /\ result[p].state # "pending"

\* every network call eventually completes and every pending callback runs
Fairness ==
    \A p \in Procs :
        /\ WF_vars(DoRespond(p))
        /\ WF_vars(SessionRespond(p))
        /\ WF_vars(Resume(p))
        /\ WF_vars(LegacyRespond(p))
        /\ WF_vars(LegacyRefreshRespond(p))
        /\ WF_vars(LegacyResume(p))

SpecFair == Spec /\ Fairness

\* one caller performing session operations and dispatches one after another
NextSession ==
    \/ \E p \in Procs : Invoke(p)
    \/ \E p \in Procs : DoRespond(p)
    \/ \E p \in Procs : SessionRespond(p)
    \/ \E p \in Procs : Resume(p)
    \/ TokenExpires
    \/ \E p \in Procs : LegacyInvoke(p)
    \/ \E p \in Procs : LegacyRespond(p)
    \/ \E p \in Procs : LegacyRefreshRespond(p)
    \/ \E p \in Procs : LegacyResume(p)
    \/ \E p \in Procs : Logout(p)
    \/ \E p \in Procs : Authenticate(p)
    \/ \E p \in Procs : ProviderRespond(p)
    \/ \E p \in Procs : LegacyLogout(p)
    \/ \E p \in Procs : AuthWithLocal(p)
    \/ \E p \in Procs : AuthWithLocalRespond(p)
    \/ \E p \in Procs : Reset(p)

SpecSession == Init /\ [][NextSession]_vars

\* two callers dispatching on one stored session whose access token is
\* expired or missing; no further token expires while they run
InitConc ==
    /\ gen = "stitch"
    /\ active = Procs
    /\ auth \in StitchSessions \ {NoSession}
    /\ localStorage = NoLocalStorage
    /\ expired = {"A1"}
    /\ stack = [p \in Procs |-> <<>>]
    /\ result = [p \in Procs |-> NoResult]
    /\ hist = [p \in Procs |-> InitHist]
    /\ call = [p \in Procs |-> NoCall]
    /\ lastWrite = NoWrite
    /\ clock = "stopped"

NextConc ==
    \/ \E p \in Procs : InvokeAuthed(p)
    \/ \E p \in Procs : DoRespond(p)
    \/ \E p \in Procs : SessionRespond(p)
    \/ \E p \in Procs : Resume(p)

SpecConc == InitConc /\ [][NextConc]_vars

\* two callers of the legacy client on one stored session, dispatching or
\* logging out
InitLegacyConc ==
    /\ gen = "legacy"
    /\ active = Procs
    /\ auth = NoSession
    /\ localStorage \in LegacySessions \ {NoLocalStorage}
    /\ expired = {}
    /\ stack = [p \in Procs |-> <<>>]
    /\ result = [p \in Procs |-> NoResult]
    /\ hist = [p \in Procs |-> InitHist]
    /\ call = [p \in Procs |-> NoCall]
    /\ lastWrite = NoWrite
    /\ clock = "stopped"

NextLegacyConc ==
    \/ \E p \in Procs : LegacyInvoke(p)
    \/ \E p \in Procs : LegacyLogout(p)
    \/ \E p \in Procs : LegacyRespond(p)
    \/ \E p \in Procs : LegacyRefreshRespond(p)
    \/ \E p \in Procs : LegacyResume(p)

SpecLegacyConc == InitLegacyConc /\ [][NextLegacyConc]_vars

(***************************************************************************)
(* Properties                                                              *)
(***************************************************************************)
\* the caller found an identity in the store
HadIdentity(p) ==
    IF gen = "stitch" THEN call[p].store.userId # None
    ELSE ~call[p].store.ua.null

SessionCleared ==
    IF gen = "stitch" THEN auth = NoSession ELSE localStorage = NoLocalStorage

\* C1: one invocation of dispatch issues at most one refresh call and sends
\* at most two primary requests, whatever the service answers and whether or
\* not the token stored by the refresh is reported expired.
C1_RetryBudget ==
    \A p \in Procs : hist[p].nRefresh <= 1 /\ hist[p].nPrimary <= 2

\* C2: under fair completion of every network call and callback, every
\* invocation of _do eventually resolves or rejects.
C2_Termination ==
    \A p \in Procs : (gen = "stitch" /\ call[p].made) ~> Done(p)

\* C3: once a primary request is answered invalid-session while
\* refreshOnFailure is true, exactly one refresh call is made and, when it
\* succeeds, exactly one retried primary request; a second invalid-session
\* answer clears the session and rejects.
C3_ExactlyOneRetry ==
    \A p \in Procs :
        hist[p].reactive =>
            /\ hist[p].nRefresh = 1
            /\ hist[p].nPrimary <= 2
            /\ (Done(p) /\ hist[p].lastRefresh = "ok" => hist[p].nPrimary = 2)
            /\ (hist[p].terminalIS =>
                    Done(p) /\ SessionCleared /\ result[p].state = "rejected")
\* the store st with its access token replaced by t
WithAccessToken(st, t) ==
    IF gen = "stitch" THEN [st EXCEPT !.accessToken = t]
    ELSE [st EXCEPT !.ua.accessToken = t]

\* p called StitchClient._do with an identity, an expired access token,
\* useRefreshToken = false and noAuth = false
ExpiredCall(p) ==
    /\ gen = "stitch"
    /\ call[p].made
    /\ call[p].store.userId # None
    /\ call[p].expired
    /\ ~call[p].opts.useRefreshToken
    /\ ~call[p].opts.noAuth

\* C4 as stated: with an expired access token and useRefreshToken = false,
\* _do issues a refresh call and then exactly one primary call with
\* refreshOnFailure false.
C4_ExactlyOnePrimary ==
    \A p \in Procs :
        ExpiredCall(p) /\ Done(p) =>
            /\ hist[p].first = "refresh"
            /\ hist[p].nPrimary = 1
            /\ ~hist[p].lastReq.refreshOnFailure

\* C4 amended: with an identity, an expired access token, useRefreshToken =
\* false and noAuth = false, _do first issues a refresh call; no primary
\* request is sent before a refresh has succeeded; at most one primary
\* request is sent, with refreshOnFailure false whatever the caller passed;
\* it is sent when the refresh succeeds and not at all when a refresh fails.
C4_RefreshThenPrimary ==
    \A p \in Procs :
        ExpiredCall(p) =>
            /\ hist[p].first = "refresh"
            /\ ~hist[p].early
            /\ hist[p].nPrimary <= 1
            /\ (hist[p].nPrimary = 1 =>
                    /\ ~hist[p].lastReq.refreshOnFailure
                    /\ hist[p].lastReq.afterRefresh
                    /\ hist[p].lastRefresh = "ok")
            /\ (Done(p) /\ hist[p].lastRefresh = "ok" => hist[p].nPrimary = 1)
            /\ (hist[p].lastRefresh \in {"failed", "invalidSession"} =>
                    Done(p) /\ hist[p].nPrimary = 0)

C4_Witness ==
    \E p \in Procs :
        /\ ExpiredCall(p)
        /\ call[p].opts.refreshOnFailure
        /\ Done(p)
        /\ hist[p].nRefresh = 1
        /\ hist[p].nPrimary = 1
        /\ ~hist[p].lastReq.refreshOnFailure
        /\ result[p].state = "resolved"

\* C5: an invalid-session answer to a primary request sent with
\* refreshOnFailure = false ends the dispatch: the session is cleared, the
\* dispatch rejects with the invalid-session error carrying the response and
\* the decoded body, and no further call is made.
C5_TerminalInvalidSession ==
    \A p \in Procs :
        hist[p].terminalIS =>
            /\ Done(p)
            /\ SessionCleared
            /\ result[p].state = "rejected"
            /\ result[p].hasResponse
            /\ result[p].hasJson

\* C6: a dispatch that needs an identity and finds none rejects at once with
\* 'Must auth first', makes no network call and leaves the store unchanged.
C6_MustAuthFirst ==
    \A p \in Procs :
        call[p].made /\ ~call[p].opts.noAuth /\ ~HadIdentity(p) =>
            /\ Done(p)
            /\ result[p].state = "rejected"
            /\ result[p].message = MustAuthFirst
            /\ hist[p].nPrimary = 0
            /\ hist[p].nRenewal = 0
            /\ hist[p].nRefresh = 0
            /\ CurrentStore = call[p].store

C6_Witness ==
    \E p \in Procs :
        /\ gen = "stitch"
        /\ call[p].made /\ ~call[p].opts.noAuth /\ ~HadIdentity(p)
        /\ result[p] = ErrMustAuth
        /\ hist[p].first = None

\* p called StitchClient._do with a non-expired access token and
\* useRefreshToken = false
FreshCall(p) ==
    /\ gen = "stitch"
    /\ call[p].made
    /\ ~call[p].expired
    /\ ~call[p].opts.useRefreshToken

\* C7 as stated: with a non-expired access token and useRefreshToken = false
\* the dispatch issues exactly one network call.
C7_ExactlyOneCall ==
    \A p \in Procs :
        FreshCall(p) /\ Done(p) => hist[p].nPrimary + hist[p].nRenewal = 1

\* C7 amended: with a non-expired access token and useRefreshToken = false
\* there is no proactive refresh: the first network call is the primary
\* request, and it is the only network call unless it is answered
\* invalid-session while refreshOnFailure is true.
C7_NoProactiveRefresh ==
    \A p \in Procs :
        FreshCall(p) =>
            /\ hist[p].first = "primary"
            /\ (~hist[p].reactive =>
                    /\ hist[p].nPrimary = 1
                    /\ hist[p].nRenewal = 0
                    /\ hist[p].nRefresh = 0)

C7_Witness ==
    \E p \in Procs :
        /\ FreshCall(p)
        /\ ~call[p].opts.noAuth
        /\ Done(p)
        /\ result[p].state = "resolved"
        /\ hist[p].nPrimary = 1
        /\ hist[p].nRenewal = 0

\* the refresh of p has just succeeded and its continuation has not yet run
JustRefreshed(p) == stack[p] # <<>> /\ Top(stack[p]).pc = "resume"

\* a successful refresh replaced the access token and nothing else
OnlyAccessTokenReplaced(p) ==
    JustRefreshed(p) =>
        /\ CurrentStore = WithAccessToken(hist[p].storeAtRefresh, hist[p].newToken)
        /\ hist[p].newToken # None

\* C8 as stated: a successful refresh replaces only the access token, and
\* the authenticated primary request sent after the refresh carries the newly
\* stored access token as its bearer credential.
C8_BearerIsNewToken ==
    \A p \in Procs :
        /\ OnlyAccessTokenReplaced(p)
        /\ (hist[p].lastReq.afterRefresh /\ ~hist[p].lastReq.noAuth =>
                hist[p].lastReq.bearer = hist[p].newToken)

\* C8 amended: a successful refresh replaces only the access token (refresh
\* token and identity unchanged), and a primary request sent after the
\* refresh with useRefreshToken = false and noAuth = false carries the newly
\* stored access token as its bearer credential.
C8_RefreshReplacesAccessToken ==
    \A p \in Procs :
        /\ OnlyAccessTokenReplaced(p)
        /\ (/\ hist[p].lastReq.afterRefresh
            /\ ~hist[p].lastReq.useRefreshToken
            /\ ~hist[p].lastReq.noAuth
            => hist[p].lastReq.bearer = hist[p].newToken)

\* the scenario: A1 expired, the refresh returns A2, the primary request
\* carries A2, the store ends with A2 and R1
C8_Witness ==
    \E p \in Procs :
        /\ gen = "stitch"
        /\ call[p].made
        /\ call[p].store = [accessToken |-> "A1", refreshToken |-> "R1", userId |-> "u1"]
        /\ call[p].expired
        /\ Done(p)
        /\ result[p].state = "resolved"
        /\ hist[p].lastReq.bearer = "A2"
        /\ auth = [accessToken |-> "A2", refreshToken |-> "R1", userId |-> "u1"]

\* C9: a refresh that fails with an invalid-session signal leaves the whole
\* session cleared; a refresh that fails otherwise leaves the store as it
\* was; in both cases the dispatch rejects.
C9_RefreshFailure ==
    \A p \in Procs :
        /\ (hist[p].lastRefresh = "invalidSession" =>
                Done(p) /\ result[p].state = "rejected" /\ SessionCleared)
        /\ (hist[p].lastRefresh = "failed" =>
                /\ Done(p)
                /\ result[p].state = "rejected"
                /\ CurrentStore = hist[p].storeAtRefresh)

C9_Witness ==
    \E p \in Procs :
        /\ gen = "stitch"
        /\ hist[p].lastRefresh = "invalidSession"
        /\ hist[p].storeAtRefresh.userId # None
        /\ hist[p].storeAtRefresh.refreshToken # None
        /\ auth = NoSession
        /\ result[p].state = "rejected"

RefreshFrames == {"doSessionPost", "_refreshToken"}

\* C10: the token-renewal request never starts another refresh: a refresh
\* frame is always the innermost call, it only ever awaits its own fetch, and
\* no refresh is started from inside a refresh.
C10_RefreshIsBaseCase ==
    \A p \in Procs :
        /\ hist[p].nNested = 0
        /\ \A i \in 1..Len(stack[p]) :
              stack[p][i].fn \in RefreshFrames =>
                  /\ i = Len(stack[p])
                  /\ stack[p][i].pc = "awaitFetch"
                  /\ (gen = "stitch" =>
                          /\ stack[p][i].opts.useRefreshToken
                          /\ ~stack[p][i].opts.refreshOnFailure)

\* a renewal request made while the access token was expired was answered
\* invalid-session, and the dispatch ended there
C10_Witness ==
    \E p \in Procs :
        /\ gen = "stitch"
        /\ hist[p].lastRefresh = "invalidSession"
        /\ (hist[p].storeAtRefresh.accessToken = None
              \/ hist[p].storeAtRefresh.accessToken \in expired)
        /\ hist[p].nRefresh = 1
        /\ hist[p].nRenewal = 1
        /\ Done(p)
\* the calls p has made since its last primary request was answered: none
NoCallSinceAnswer(p) ==
    /\ hist[p].nRefresh = hist[p].atResp.nRefresh
    /\ hist[p].nRenewal = hist[p].atResp.nRenewal
    /\ hist[p].nPrimary = hist[p].atResp.nPrimary

\* C11: a _do call with noAuth = true sends exactly one request, without
\* bearer credential, and no renewal request, whatever the store holds.
C11_NoAuthSingleRequest ==
    \A p \in Procs :
        gen = "stitch" /\ call[p].made /\ call[p].opts.noAuth =>
            /\ hist[p].nPrimary = 1
            /\ hist[p].lastReq.bearer = None
            /\ hist[p].nRenewal = 0

\* a response that is neither 2xx nor an invalid-session error
OtherError(r) ==
    /\ ~r.transport
    /\ ~(r.status >= 200 /\ r.status < 300)
    /\ ~(r.json /\ r.errorCode = ErrInvalidSession)

\* C12: in StitchClient._do a non-2xx answer other than invalid-session is
\* terminal: the dispatch rejects with a StitchError carrying the response
\* and the decoded body (an Error with the status text when the body is not
\* JSON), no refresh and no retry follow, and the store is left as it was.
C12_OtherErrorTerminal ==
    \A p \in Procs :
        gen = "stitch" /\ hist[p].answered /\ OtherError(hist[p].lastResp) =>
            /\ Done(p)
            /\ result[p].state = "rejected"
            /\ (hist[p].lastResp.json =>
                    /\ result[p].type = "StitchError"
                    /\ result[p].code = hist[p].lastResp.errorCode
                    /\ result[p].hasResponse
                    /\ result[p].hasJson)
            /\ (~hist[p].lastResp.json =>
                    /\ result[p].type = "Error"
                    /\ result[p].message = "statusText"
                    /\ result[p].hasResponse)
            /\ NoCallSinceAnswer(p)
            /\ auth = hist[p].atResp.store

C12_Witness ==
    \E p \in Procs :
        /\ gen = "stitch"
        /\ call[p].opts.refreshOnFailure
        /\ hist[p].answered
        /\ hist[p].lastResp.json
        /\ hist[p].lastResp.errorCode = "Other"
        /\ result[p].code = "Other"
        /\ auth.userId # None
        /\ Done(p)

\* C13: in the legacy client a non-2xx answer makes the promise returned by
\* _doAuthed reject; it never resolves for a failed request.
C13_LegacyFailuresReject ==
    \A p \in Procs :
        /\ gen = "legacy"
        /\ Done(p)
        /\ hist[p].answered
        /\ ~hist[p].lastResp.transport
        /\ ~(hist[p].lastResp.status >= 200 /\ hist[p].lastResp.status < 300)
        => result[p].state = "rejected"

\* C14: a transport failure of the primary request ends the dispatch: it
\* rejects with that failure, no refresh and no retry follow, and the store
\* is left as it was.
C14_TransportFailureTerminal ==
    \A p \in Procs :
        hist[p].answered /\ hist[p].lastResp.transport =>
            /\ Done(p)
            /\ result[p] = ErrTransport
            /\ NoCallSinceAnswer(p)
            /\ CurrentStore = hist[p].atResp.store

C14_Witness ==
    \E p \in Procs :
        /\ gen = "stitch"
        /\ call[p].opts.refreshOnFailure
        /\ ~call[p].opts.noAuth
        /\ call[p].store.userId # None
        /\ hist[p].answered
        /\ hist[p].lastResp.transport
        /\ hist[p].nPrimary = 1
        /\ result[p] = ErrTransport

\* the access token the store holds
StoredAccessToken ==
    IF gen = "stitch" THEN auth.accessToken ELSE localStorage.ua.accessToken

\* an invalid-session signal reached p, from a primary or a renewal request
InvalidSessionSeen(p) ==
    \/ hist[p].answered /\ hist[p].lastResp.errorCode = ErrInvalidSession
    \/ hist[p].lastRefresh = "invalidSession"

\* C16: a dispatch changes the store in two ways only: a successful refresh
\* replaces the access token, and an invalid-session signal clears the whole
\* session; the refresh token and the identity never change otherwise, and a
\* dispatch that resolves without refreshing leaves the store unchanged.
C16_StoreEffects ==
    \A p \in Procs :
        call[p].made =>
            /\ \/ CurrentStore = call[p].store
               \/ /\ hist[p].nRefreshOk > 0
                  /\ CurrentStore = WithAccessToken(call[p].store, StoredAccessToken)
               \/ SessionCleared /\ InvalidSessionSeen(p)
            /\ (Done(p) /\ result[p].state = "resolved" /\ hist[p].nRefresh = 0 =>
                    CurrentStore = call[p].store)

C16_Witness ==
    \E p \in Procs :
        /\ gen = "legacy"
        /\ call[p].made
        /\ ~call[p].store.ua.null
        /\ Done(p)
        /\ result[p] = ResolvedResponse
        /\ hist[p].nRefresh = 0
        /\ localStorage = call[p].store
\* C15: in the legacy store, after any sequence of _setAuth, _setAccessToken,
\* logout and _clearAuth, a stored refresh token implies a stored identity.
C15_RefreshTokenImpliesIdentity ==
    gen = "legacy" /\ localStorage.rt # None =>
        ~localStorage.ua.null /\ localStorage.ua.userId # None

C15_Witness ==
    \E p \in Procs :
        /\ gen = "legacy"
        /\ call[p].op = "authWithLocal"
        /\ call[p].store = NoLocalStorage
        /\ hist[p].setAuth.called
        /\ Done(p)
        /\ localStorage.rt = "R1"
        /\ localStorage.ua.userId = "u1"

\* the refresh token the caller found in the store
RefreshTokenFound(p) ==
    IF gen = "stitch" THEN call[p].store.refreshToken ELSE call[p].store.rt

\* the unauthenticated error of the client generation
UnauthenticatedError == IF gen = "stitch" THEN ErrMustAuth ELSE LegacyErrMustAuth

\* C17: logout on a stored session sends exactly one request, with the
\* refresh token as bearer and refreshOnFailure false, and never a refresh
\* call, expired access token or not; once it has resolved the whole session
\* is absent, and until an authentication succeeds every dispatch that needs
\* credentials fails with the unauthenticated error without a network call.
C17_LogoutEndsSession ==
    \A p \in Procs :
        /\ (call[p].op = "logout" /\ HadIdentity(p) =>
                /\ hist[p].nPrimary = 1
                /\ hist[p].nRefresh = 0
                /\ hist[p].nRenewal = 0
                /\ hist[p].lastReq.bearer = RefreshTokenFound(p)
                /\ hist[p].lastReq.useRefreshToken
                /\ ~hist[p].lastReq.refreshOnFailure)
        /\ (call[p].op = "logout" /\ Done(p) /\ result[p].state = "resolved" =>
                SessionCleared)
        /\ (hist[p].loggedOut => SessionCleared)
        /\ (/\ hist[p].loggedOut
            /\ call[p].op \in {"_do", "_doAuthed"}
            /\ ~call[p].opts.noAuth
            => /\ result[p] = UnauthenticatedError
               /\ hist[p].nPrimary = 0
               /\ hist[p].nRenewal = 0)

C17_Witness ==
    \E p \in Procs :
        /\ gen = "stitch"
        /\ hist[p].loggedOut
        /\ call[p].op = "_do"
        /\ call[p].opts.refreshOnFailure
        /\ ~call[p].opts.noAuth
        /\ Done(p)
        /\ result[p] = ErrMustAuth

\* C19: authenticate with a stored access token resolves with the stored
\* user id, invokes no provider, makes no network call and leaves the store
\* unchanged; without a stored access token the provider is invoked.
C19_AuthenticateReuses ==
    \A p \in Procs :
        gen = "stitch" /\ call[p].op = "authenticate" =>
            /\ (call[p].store.accessToken # None =>
                    /\ Done(p)
                    /\ result[p] = ResolvedValue(call[p].store.userId)
                    /\ hist[p].nProvider = 0
                    /\ hist[p].nPrimary = 0
                    /\ hist[p].nRenewal = 0
                    /\ auth = call[p].store)
            /\ (call[p].store.accessToken = None => hist[p].nProvider = 1)

C19_Witness ==
    \E p \in Procs :
        /\ gen = "stitch"
        /\ call[p].op = "authenticate"
        /\ call[p].store.accessToken = "A1"
        /\ call[p].expired
        /\ Done(p)
        /\ result[p].value = "u1"
        /\ hist[p].nProvider = 0

\* C20: after _setAuth(json), auth() returns the document that was set,
\* authedId() its user id and the refresh token is the one that was set;
\* after _clearAuth(), auth() returns null.
C20_StoreRoundTrip ==
    \A p \in Procs :
        gen = "legacy" =>
            /\ (call[p].op = "authWithLocal" /\ hist[p].setAuth.called /\ Done(p) =>
                    /\ ~localStorage.ua.null
                    /\ localStorage.ua.accessToken = hist[p].setAuth.accessToken
                    /\ localStorage.ua.userId = hist[p].setAuth.userId
                    /\ localStorage.ua.name = hist[p].setAuth.name
                    /\ localStorage.rt = hist[p].setAuth.refreshToken)
            /\ (hist[p].terminalIS \/ hist[p].loggedOut => LegacyAuthIsNull)
C21_RetryKeepsOptions ==
    \A p \in Procs :
        /\ call[p].op \in {"_do", "_doAuthed"}
        /\ hist[p].reactive
        /\ hist[p].lastReq.afterRefresh
        => /\ ~hist[p].lastReq.refreshOnFailure
           /\ hist[p].lastReq.useRefreshToken = call[p].opts.useRefreshToken
           /\ hist[p].lastReq.noAuth = call[p].opts.noAuth
\* p called StitchClient._do with an identity but no access token in the
\* store, useRefreshToken = false and noAuth = false
TransientCall(p) ==
    /\ gen = "stitch"
    /\ call[p].op = "_do"
    /\ call[p].store.userId # None
    /\ call[p].store.accessToken = None
    /\ ~call[p].opts.useRefreshToken
    /\ ~call[p].opts.noAuth

\* C22: with an identity but no access token stored, _do with
\* useRefreshToken = false does not fail as unauthenticated and sends no
\* primary request without an access token: its first network call is a
\* refresh, and every primary request follows a successful refresh and
\* carries the access token stored then.
C22_MissingTokenRefreshes ==
    \A p \in Procs :
        TransientCall(p) =>
            /\ result[p] # ErrMustAuth
            /\ hist[p].first = "refresh"
            /\ ~hist[p].early
            /\ (hist[p].nPrimary > 0 =>
                    /\ hist[p].lastReq.afterRefresh
                    /\ hist[p].lastReq.bearer # None
                    /\ hist[p].lastReq.bearer = hist[p].lastReq.storedAccess)

C22_Witness ==
    \E p \in Procs :
        /\ TransientCall(p)
        /\ Done(p)
        /\ result[p] = ResolvedResponse
        /\ hist[p].nPrimary = 1
        /\ hist[p].lastReq.bearer = auth.accessToken
        /\ auth.accessToken # None
\* C23: when the renewal request of a dispatch fails, on the proactive or the
\* reactive path, the dispatch rejects at once with the error of that
\* failure and sends no further primary request; the session is cleared when
\* the failure was an invalid-session signal and left as the refresh found
\* it otherwise.
C23_RefreshFailureEndsDispatch ==
    \A p \in Procs :
        hist[p].lastRefresh \in {"failed", "invalidSession"} =>
            LET r == hist[p].lastRefreshResp
            IN /\ Done(p)
               /\ result[p].state = "rejected"
               /\ hist[p].nPrimary = hist[p].primaryAtRefresh
               /\ (r.transport => result[p] = ErrTransport)
               /\ (~r.transport /\ r.status >= 300 /\ ~r.json =>
                       result[p].message = "statusText" /\ result[p].hasResponse)
               /\ (gen = "stitch" /\ ~r.transport /\ r.status >= 300 /\ r.json =>
                       result[p].type = "StitchError" /\ result[p].code = r.errorCode)
               /\ (gen = "legacy" /\ ~r.transport /\ r.status # 200 /\ r.json =>
                       result[p] = LegacyErrJson)
               /\ (hist[p].lastRefresh = "invalidSession" => SessionCleared)
               /\ (hist[p].lastRefresh = "failed" =>
                       CurrentStore = hist[p].storeAtRefresh)

C23_Witness ==
    \E p \in Procs :
        /\ gen = "legacy"
        /\ hist[p].reactive
        /\ hist[p].lastRefresh = "failed"
        /\ hist[p].lastRefreshResp.json
        /\ hist[p].lastRefreshResp.errorCode = "Other"
        /\ hist[p].nPrimary = 1
        /\ ~localStorage.ua.null
        /\ Done(p)
\* C24: a logout whose request fails with a transport error or with an error
\* other than invalid-session rejects and leaves the stored session as it
\* was; a logout whose request is answered invalid-session rejects and the
\* session is cleared.
C24_LogoutFailureKeepsSession ==
    \A p \in Procs :
        call[p].op = "logout" /\ Done(p) /\ hist[p].answered =>
            LET r == hist[p].lastResp
            IN /\ (r.transport \/ OtherError(r) =>
                       result[p].state = "rejected" /\ CurrentStore = call[p].store)
               /\ (~r.transport /\ r.json /\ r.errorCode = ErrInvalidSession =>
                       result[p].state = "rejected" /\ SessionCleared)
\* C25: in the legacy client a session cleared while a refresh is in flight
\* stays cleared: the store never holds one of its two items without the
\* other, the late answer to the renewal request writes nothing, and the
\* dispatch waiting for it rejects without sending its retry.
C25_ClearedStaysCleared ==
    /\ (localStorage.ua.null <=> localStorage.rt = None)
    /\ \A p \in Procs :
          hist[p].clearedInFlight =>
              /\ localStorage = NoLocalStorage
              /\ Done(p)
              /\ result[p].state = "rejected"
              /\ hist[p].nPrimary = hist[p].primaryAtRefresh

C25_Witness ==
    \E p \in Procs :
        /\ gen = "legacy"
        /\ hist[p].clearedInFlight
        /\ hist[p].lastRefreshResp.status = 200
        /\ hist[p].lastRefreshResp.json
        /\ result[p] = ErrSyntax
        /\ hist[p].nPrimary = 1
        /\ localStorage = NoLocalStorage
====
